---- MODULE Spec2Model ----
(***************************************************************************)
(* The status daemon (statusd.cpp) as a state machine: the control socket, *)
(* the receive loop, the bitmask dispatch, read_cmd_output with its pipe   *)
(* and child process, and the publish step.  src/statusd.cpp holds two     *)
(* variants of the daemon (lines 1-282 and 284-554); the variable          *)
(* `variant` says which one was built.                                     *)
(***************************************************************************)
EXTENDS Integers, Sequences, FiniteSets, TLC

(* ---------------------------------------------------------------- sizes *)

N_FIELDS == 3

FIELD_BUF_MAX_SIZE == 31 + 1

\* #define STATUS_FMT "[%s |%s |%s]"
STATUS_FMT == <<"[", "%s", " ", "|", "%s", " ", "|", "%s", "]">>

\* sizeof(STATUS_FMT): each %s is two characters, and the terminator
SIZEOF_STATUS_FMT == Len(STATUS_FMT) + N_FIELDS + 1

\* a render buffer sized for the fields alone
STATUS_BUF_MAX_SIZE_Mut == FIELD_BUF_MAX_SIZE * N_FIELDS
STATUS_BUF_MAX_SIZE == FIELD_BUF_MAX_SIZE * N_FIELDS + SIZEOF_STATUS_FMT + 1

\* sizeof(bitset), the size asked of read(sock_fd, &bitset, ...)
SIZEOF_BITSET == 8

\* the width of u64 and of the int literal 1 in (1 << i)
U64_BITS == 8 * SIZEOF_BITSET
INT_BITS == 4 * 8

(* --------------------------------------------------------------- bounds *)

\* capacity of the kernel's pipe buffer, in bytes
PipeCap == 16

\* number of 8-byte control messages the daemon is sent
MaxMsgs == 1

\* number of pipe(), fork() and read() calls that fail in one run
MaxFaults == 1

\* longest datagram a client sends
MaxDgramLen == 9

(* ---------------------------------------------------------------- bytes *)

NUL == "\\0"
NL == "\\n"

Char == {NUL, NL, "a", "b"}

Rep(c, n) == [k \in 1..n |-> c]

Min(a, b) == IF a < b THEN a ELSE b

Fields == 0..(N_FIELDS - 1)
BufIdx == 0..(FIELD_BUF_MAX_SIZE - 1)

\* static char field_buffers[N_FIELDS][FIELD_BUF_MAX_SIZE], zero-initialised
ZeroBuffers == [f \in Fields |-> [k \in BufIdx |-> NUL]]

\* strlen of a field buffer; FIELD_BUF_MAX_SIZE when it holds no terminator
StrLen(buf) ==
    IF \E k \in BufIdx : buf[k] = NUL
    THEN CHOOSE k \in BufIdx : buf[k] = NUL /\ \A j \in 0..(k - 1) : buf[j] # NUL
    ELSE FIELD_BUF_MAX_SIZE

\* the C string a field buffer holds: what "%s" prints
CStr(buf) == [k \in 1..StrLen(buf) |-> buf[k - 1]]

\* the first n bytes of a sequence
Take(s, n) == SubSeq(s, 1, Min(n, Len(s)))

\* Storing `bytes` at buf + off, buf being field_buffers[f]: the array is
\* contiguous, so a store past the end of one buffer lands in the next one
\* (and past the last one, outside the array).
StoreBytes(fb, f, off, bytes) ==
    [g \in Fields |->
        [k \in BufIdx |->
            LET a == (g * FIELD_BUF_MAX_SIZE + k) - (f * FIELD_BUF_MAX_SIZE + off)
            IN  IF a >= 0 /\ a < Len(bytes) THEN bytes[a + 1] ELSE fb[g][k]]]

\* whether a store of n bytes at buf + off leaves the buffer
Overruns(off, n) == n > 0 /\ off + n > FIELD_BUF_MAX_SIZE

(* ------------------------------------------------------------- bitmasks *)
\* A u64 is the set of its set bit positions.

AllBits == 0..(U64_BITS - 1)

\* a conversion that fills the upper half with zeros, as from unsigned
SignExtendMut(s) == s
\* int -> u64 conversion of a 32-bit pattern: sign extension
SignExtend(s) ==
    IF (INT_BITS - 1) \in s THEN s \cup ((INT_BITS)..(U64_BITS - 1)) ELSE s

\* the operand of `bitset & ...` for bit i: (1 << i) as int, or u64(1) << i
ShiftMask(v, i) == IF v = "int" THEN SignExtend({i}) ELSE {i}

\* the operand of `bitset &= ...`: ~(1 << i) as int, or ~(u64(1) << i)
ClearMask(v, i) ==
    IF v = "int"
    THEN SignExtend((0..(INT_BITS - 1)) \ {i})
    ELSE AllBits \ {i}

\* a test that takes any pending bit for bit i
BitTestMut(v, bs, i) == bs # {}
BitTest(v, bs, i) == (bs \cap ShiftMask(v, i)) # {}

\* a loop that forgets to clear the bit it has processed
BitClearMut(v, bs, i) == bs
BitClear(v, bs, i) == bs \cap ClearMask(v, i)

(* --------------------------------------------------------------- render *)

RECURSIVE Format(_, _, _)
\* printf's expansion of a format: the k-th %s is the C string of buffer k
Format(fmt, fb, k) ==
    IF fmt = <<>> THEN <<>>
    ELSE IF Head(fmt) = "%s"
         THEN CStr(fb[k]) \o Format(Tail(fmt), fb, k + 1)
         ELSE <<Head(fmt)>> \o Format(Tail(fmt), fb, k)

\* snprintf(buf, size, fmt, ...): at most size - 1 characters are kept
Snprintf(size, fmt, fb) == Take(Format(fmt, fb, 0), size - 1)

\* the string refresh_status publishes
Render(fb) == Snprintf(STATUS_BUF_MAX_SIZE, STATUS_FMT, fb)

\* puts(buf) appends the line to stdio's buffer, where it stays (the lines
\* of a run do not fill the buffer); XStoreName and XFlush write nothing to
\* standard output
Publish(snk, pending, line) ==
    IF snk = "stream" THEN pending \o line \o <<NL>> ELSE pending

(* ------------------------------------------------------------- registry *)

\* static constexpr Update updates[]: entry i is bound to field buffer i
updates ==
    << [type |-> "UT_SHELL", buffer_idx |-> 0, sh_cmd |-> "TIME_CMD"],
       [type |-> "UT_SHELL", buffer_idx |-> 1, sh_cmd |-> "LOAD_CMD"],
       [type |-> "UT_SHELL", buffer_idx |-> 2, sh_cmd |-> "TEMP_CMD"] >>

\* std::size(updates)
NUpdates == Len(updates)

\* the buffer run_update hands to read_cmd_output for updates[i]
BufferOf(i) == updates[i + 1].buffer_idx

(* ---------------------------------------------------------- environment *)

\* What each registry command may write to its standard output before it
\* exits.  The last output of TEMP_CMD is longer than the field and the
\* pipe can hold together.
CmdOutputs(cmd) ==
    CASE cmd = "TIME_CMD" ->
           { <<>>, <<"a", NL>>, <<"b", NL, NL>> }
      [] cmd = "LOAD_CMD" ->
           { <<"b", NUL, "b">>, Rep("b", FIELD_BUF_MAX_SIZE - 1) }
      [] cmd = "TEMP_CMD" ->
           { Rep("a", FIELD_BUF_MAX_SIZE - 2) \o <<NL, "b">>,
             Rep("b", FIELD_BUF_MAX_SIZE - 2) \o <<NL, NL>>,
             Rep("a", FIELD_BUF_MAX_SIZE + PipeCap) }

\* bitmasks with bits set at positions >= N_FIELDS
StrayMasks ==
    { {N_FIELDS},
      {0, N_FIELDS, N_FIELDS + 1},
      {1, 2, INT_BITS - 1, INT_BITS, U64_BITS - 1} }

\* the bitmasks a client may send
Masks == (SUBSET Fields) \cup StrayMasks

\* a datagram: its length in bytes and, of its first 8 bytes, the set bits
Datagrams ==
    { [len |-> SIZEOF_BITSET, bits |-> m] : m \in Masks }
    \cup { [len |-> l, bits |-> {}] : l \in {0, 1, SIZEOF_BITSET - 1} }
    \cup { [len |-> l, bits |-> m] :
             l \in (SIZEOF_BITSET + 1)..MaxDgramLen, m \in { {0} } }

\* what socket(2) may return: an error, or a descriptor (0 when the daemon
\* was started with standard input closed)
SocketResults == {-1, 0, 3}

(* ---------------------------------------------------------------- state *)

VARIABLES
    variant,        \* which daemon was built: "int" (1 << i) or "u64"
    pc,             \* main's position
    sock_fd,        \* main's sock_fd
    field_buffers,  \* the Field Store
    bitset,         \* main's bitset, the set of its set bits
    i,              \* the loop index of init_status / of the dispatch loop
    rc,             \* read_cmd_output's position
    cmd,            \* read_cmd_output's cmd
    buf,            \* read_cmd_output's buf: the index of the field buffer
    pipe_fds,       \* the ends of the pipe open in the daemon: 0 read, 1 write
    defers,         \* the defer objects alive in read_cmd_output, oldest first
    child,          \* the forked child: none, running, exited (zombie), reaped
    child_out,      \* what the child has yet to write
    pipe_buf,       \* the bytes in the pipe
    read_so_far,    \* read_all's read_so_far
    ret,            \* read_cmd_output's return value
    cmd_out,        \* history: everything the command writes
    old,            \* history: the buffer's contents when the call began
    exec_failed,    \* history: dup2 or execv failed in the child
    overrun,        \* history: a store fell outside the buffer it was made to
    mask,           \* history: the bitmask as received
    updated,        \* history: the registry indices run in this dispatch
    dgram_len,      \* history: the length of the last datagram
    diag_recv,      \* diagnostics of the receive for the last datagram
    diag_oob,       \* out-of-range diagnostics of this dispatch
    publishes,      \* number of refresh_status calls so far
    received,       \* number of reads that returned 8 bytes
    fatal,          \* history: the fatal condition that occurred, if any
    faults,         \* number of pipe(), fork() and read() calls that failed
    status,         \* the string last published: the root window's name
    sink,           \* where refresh_status publishes: "title" (XStoreName),
                    \* or "stream": puts() on a standard output that is a
                    \* pipe or a file, which stdio buffers in full
    stdout_buf      \* the bytes in stdio's buffer of standard output

sink_vars == <<sink, stdout_buf>>

\* the client (status.cpp), one run of it
VARIABLES
    argv,           \* argv[1..argc-1], each argument a sequence of characters
    cpc,            \* the client's position; "absent" when no client is modelled
    ci,             \* the loop index i of the client's main
    bs,             \* the client's bs, the set of its set bits
    server_fd,      \* the client's server_fd
    exit_code,      \* what the client's main returned
    sent            \* the datagrams the client has sent, in order

client_vars == <<argv, cpc, ci, bs, server_fd, exit_code, sent>>

\* no client takes part
ClientAbsent ==
    /\ argv = <<>> /\ cpc = "absent" /\ ci = 0 /\ bs = {}
    /\ server_fd = -1 /\ exit_code = "none" /\ sent = <<>>

exec_vars == <<rc, cmd, buf, pipe_fds, defers, child, child_out, pipe_buf,
               read_so_far, ret, cmd_out, old, exec_failed>>
main_vars == <<variant, pc, sock_fd, bitset, i>>
hist_vars == <<mask, updated, dgram_len, diag_recv, diag_oob, publishes,
               received, fatal, faults>>
hist_nofault == <<mask, updated, dgram_len, diag_recv, diag_oob, publishes,
                  received, fatal>>
vars == <<main_vars, field_buffers, exec_vars, overrun, hist_vars, status,
          sink_vars, client_vars>>

ZeroBuf == [k \in BufIdx |-> NUL]

\* read_cmd_output is not running
ExecIdle ==
    /\ rc = "idle" /\ cmd = "" /\ buf = -1 /\ pipe_fds = {} /\ defers = <<>>
    /\ child = "none" /\ child_out = <<>> /\ pipe_buf = <<>>
    /\ read_so_far = 0 /\ ret = "none" /\ cmd_out = <<>> /\ old = ZeroBuf
    /\ exec_failed = FALSE

\* the daemon before main's first statement
DaemonInit ==
    /\ variant \in {"int", "u64"}
    /\ pc = "start"
    /\ sock_fd = -1
    /\ field_buffers = ZeroBuffers
    /\ bitset = {}
    /\ i = 0
    /\ ExecIdle
    /\ overrun = FALSE
    /\ mask = {} /\ updated = {} /\ dgram_len = -1
    /\ diag_recv = 0 /\ diag_oob = 0
    /\ publishes = 0 /\ received = 0
    /\ fatal = "none"
    /\ faults = 0
    /\ status = <<>>
    /\ stdout_buf = <<>>

\* the daemon publishes to the root window's name
Init == DaemonInit /\ sink = "title" /\ ClientAbsent

(* -------------------------------------------------------------- startup *)

\* get_named_socket: socket(), bind(); -1 when either fails
NamedSocket(fd, bind_ok) == IF fd < 0 \/ ~bind_ok THEN -1 ELSE fd

\* main's test of get_named_socket's result: sock_fd < 1, or sock_fd < 0
SockFdRejected(v, fd) == IF v = "int" THEN fd < 1 ELSE fd < 0

GetNamedSocket ==
    /\ pc = "start"
    /\ \E fd \in SocketResults, bind_ok \in BOOLEAN :
         /\ sock_fd' = NamedSocket(fd, bind_ok)
         /\ fatal' = IF fd < 0 THEN "socket"
                     ELSE IF ~bind_ok THEN "bind" ELSE "none"
         /\ pc' = IF SockFdRejected(variant, sock_fd') THEN "exited" ELSE "init_x"
    /\ UNCHANGED <<variant, bitset, i, field_buffers, exec_vars, overrun,
                   mask, updated, dgram_len, diag_recv, diag_oob, publishes,
                   received, faults>>
    /\ UNCHANGED <<status, sink_vars, client_vars>>

\* init_x: XOpenDisplay succeeds or not
InitX ==
    /\ pc = "init_x"
    /\ \E ok \in BOOLEAN :
         /\ pc' = IF ok THEN "init_status" ELSE "exited"
         /\ fatal' = IF ok THEN fatal ELSE "display"
    /\ UNCHANGED <<variant, sock_fd, bitset, i, field_buffers, exec_vars,
                   overrun, mask, updated, dgram_len, diag_recv, diag_oob,
                   publishes, received, faults>>
    /\ UNCHANGED <<status, sink_vars, client_vars>>

(* ------------------------------------------------------ read_cmd_output *)

\* run_update(&updates[k]): UT_SHELL calls read_cmd_output on the entry's
\* buffer (the registry holds no UT_INTERNAL entry)
RunUpdate(k) ==
    /\ rc' = "pipe"
    /\ cmd' = updates[k + 1].sh_cmd
    /\ buf' = BufferOf(k)
    /\ old' = field_buffers[BufferOf(k)]
    /\ ret' = "none"
    /\ UNCHANGED <<pipe_fds, defers, child, child_out, pipe_buf, read_so_far,
                   cmd_out, exec_failed, field_buffers, overrun>>

\* the frame of read_cmd_output is gone: main goes on
ExecReset ==
    /\ rc' = "idle" /\ cmd' = "" /\ buf' = -1 /\ pipe_fds' = {} /\ defers' = <<>>
    /\ child' = "none" /\ child_out' = <<>> /\ pipe_buf' = <<>>
    /\ read_so_far' = 0 /\ ret' = "none" /\ cmd_out' = <<>> /\ old' = ZeroBuf
    /\ exec_failed' = FALSE

\* a system call of read_cmd_output fails
Fault ==
    /\ faults < MaxFaults
    /\ faults' = faults + 1

\* the defer objects alive after `defer { close(pipe_fds[0]); }`
DefersAfterPipe == <<"close0">>

\* the child is never waited for
DefersAfterForkMut == <<"close0">>
\* ... and after `defer { waitpid(child, nullptr, 0); }`
DefersAfterFork == <<"close0", "waitpid">>

\* What the child writes to the pipe when it ends by exit(EXIT_FAILURE):
\* exit() flushes the copy of stdio's buffer that fork() gave the child.
\* After a failed dup2 standard output is not the pipe, and the pipe gets
\* nothing; after a failed execv it is, and the pipe gets the buffer.
ExitOutputs(pending) == {<<>>, pending}

\* pipe(pipe_fds)
RcPipe ==
    /\ rc = "pipe"
    /\ \/ /\ Fault                            \* pipe() < 0: perror, return false
          /\ ret' = "false"
          /\ rc' = "returned"
          /\ UNCHANGED <<pipe_fds, defers>>
       \/ /\ pipe_fds' = {0, 1}
          /\ defers' = DefersAfterPipe
          /\ rc' = "fork"
          /\ UNCHANGED <<ret, faults>>
    /\ UNCHANGED <<main_vars, hist_nofault, field_buffers, overrun, cmd, buf, child,
                   child_out, pipe_buf, read_so_far, cmd_out, old>>
    /\ UNCHANGED <<status, sink_vars, client_vars, exec_failed>>

\* the whole buffer handed to read_all, no room left for the terminator
ReadCountMut == FIELD_BUF_MAX_SIZE
\* read_all's count as read_cmd_output passes it
ReadCount == FIELD_BUF_MAX_SIZE - 1

\* fork(); in the parent close(pipe_fds[1]), buf[0] = '\0', and read_all begins
RcFork ==
    /\ rc = "fork"
    /\ \/ /\ Fault                            \* fork() < 0: perror, close, return
          /\ ret' = "false"
          /\ pipe_fds' = pipe_fds \ {1}
          /\ rc' = "defer"
          /\ UNCHANGED <<defers, child, child_out, cmd_out, read_so_far,
                         field_buffers, overrun, exec_failed>>
       \/ \E launched \in BOOLEAN :
          \E out \in (IF launched THEN CmdOutputs(cmd) ELSE ExitOutputs(stdout_buf)) :
          /\ child' = "running"
          /\ IF launched
             THEN UNCHANGED faults /\ cmd_out' = out
             ELSE Fault /\ cmd_out' = <<>>    \* dup2 or execv < 0: perror, exit
          /\ exec_failed' = ~launched
          /\ child_out' = out
          /\ defers' = DefersAfterFork
          /\ pipe_fds' = pipe_fds \ {1}
          /\ field_buffers' = StoreBytes(field_buffers, buf, 0, <<NUL>>)
          /\ overrun' = (overrun \/ Overruns(0, 1))
          /\ read_so_far' = 0
          /\ rc' = "read"
          /\ UNCHANGED ret
    /\ UNCHANGED <<main_vars, hist_nofault, cmd, buf, pipe_buf, old>>
    /\ UNCHANGED <<status, sink_vars, client_vars>>

\* termination that leaves the trailing newline in place
TerminateMut(fb, f, nbytes) == StoreBytes(fb, f, nbytes, <<NUL>>)
\* lines 192-194: buf[nbytes] = '\0'; a newline just before it is deleted
Terminate(fb, f, nbytes) ==
    LET fb1 == StoreBytes(fb, f, nbytes, <<NUL>>)
    IN  IF nbytes > 0 /\ fb1[f][nbytes - 1] = NL
        THEN StoreBytes(fb1, f, nbytes - 1, <<NUL>>)
        ELSE fb1

\* read_all has returned nbytes >= 0: terminate the buffer and return true
RcSuccess(nbytes) ==
    /\ field_buffers' = Terminate(field_buffers, buf, nbytes)
    /\ overrun' = (overrun \/ Overruns(nbytes, 1))
    /\ ret' = "true"
    /\ rc' = "defer"

\* what one read(fd, buf + read_so_far, count - read_so_far) takes from the pipe
ReadTakes(avail, so_far) == Min(avail, ReadCount - so_far)

\* one read() of read_all's loop.  A read interrupted by a signal (EINTR) is
\* retried with nothing changed: a stuttering step.
RcRead ==
    /\ rc = "read"
    /\ read_so_far < ReadCount
    /\ \/ /\ Fault                            \* read() < 0: perror, return false
          /\ ret' = "false"
          /\ rc' = "defer"
          /\ UNCHANGED <<field_buffers, overrun, pipe_buf, read_so_far>>
       \/ /\ pipe_buf # <<>>                  \* nbytes > 0
          /\ LET n == ReadTakes(Len(pipe_buf), read_so_far)
             IN  /\ field_buffers' =
                       StoreBytes(field_buffers, buf, read_so_far, Take(pipe_buf, n))
                 /\ overrun' = (overrun \/ Overruns(read_so_far, n))
                 /\ pipe_buf' = SubSeq(pipe_buf, n + 1, Len(pipe_buf))
                 /\ read_so_far' = read_so_far + n
          /\ UNCHANGED <<ret, rc, faults>>
       \/ /\ pipe_buf = <<>>                  \* nbytes == 0: every write end is closed
          /\ child = "exited"
          /\ RcSuccess(read_so_far)
          /\ UNCHANGED <<pipe_buf, read_so_far, faults>>
    /\ UNCHANGED <<main_vars, hist_nofault, cmd, buf, pipe_fds, defers, child,
                   child_out, cmd_out, old>>
    /\ UNCHANGED <<status, sink_vars, client_vars, exec_failed>>

\* read_all's loop ends with the buffer full: read_so_far == count
RcFull ==
    /\ rc = "read"
    /\ read_so_far >= ReadCount
    /\ RcSuccess(read_so_far)
    /\ UNCHANGED <<main_vars, hist_vars, cmd, buf, pipe_fds, defers, child,
                   child_out, pipe_buf, read_so_far, cmd_out, old>>
    /\ UNCHANGED <<status, sink_vars, client_vars, exec_failed>>

\* a waitpid that does not block (WNOHANG): a running child is left behind
RcDeferMut ==
    /\ rc = "defer"
    /\ defers # <<>>
    /\ LET d == defers[Len(defers)]
           rest == SubSeq(defers, 1, Len(defers) - 1)
       IN  /\ \/ /\ d = "waitpid"
                 /\ child' = IF child = "exited" THEN "reaped" ELSE child
                 /\ UNCHANGED pipe_fds
              \/ /\ d = "close0"
                 /\ pipe_fds' = pipe_fds \ {0}
                 /\ UNCHANGED child
           /\ defers' = rest
           /\ rc' = IF rest = <<>> THEN "returned" ELSE "defer"
    /\ UNCHANGED <<main_vars, hist_vars, field_buffers, overrun, cmd, buf,
                   child_out, pipe_buf, read_so_far, ret, cmd_out, old>>
    /\ UNCHANGED <<status, sink_vars, client_vars, exec_failed>>
\* return: the defer objects are destroyed, the youngest first.  waitpid
\* blocks until the child has exited.
RcDefer ==
    /\ rc = "defer"
    /\ defers # <<>>
    /\ LET d == defers[Len(defers)]
           rest == SubSeq(defers, 1, Len(defers) - 1)
       IN  /\ \/ /\ d = "waitpid"
                 /\ child = "exited"
                 /\ child' = "reaped"
                 /\ UNCHANGED pipe_fds
              \/ /\ d = "close0"
                 /\ pipe_fds' = pipe_fds \ {0}
                 /\ UNCHANGED child
           /\ defers' = rest
           /\ rc' = IF rest = <<>> THEN "returned" ELSE "defer"
    /\ UNCHANGED <<main_vars, hist_vars, field_buffers, overrun, cmd, buf,
                   child_out, pipe_buf, read_so_far, ret, cmd_out, old>>
    /\ UNCHANGED <<status, sink_vars, client_vars, exec_failed>>

(* ------------------------------------------------------------ the child *)

\* the command writes to its standard output: as much as the pipe takes
ChildWrite ==
    /\ child = "running"
    /\ child_out # <<>>
    /\ Len(pipe_buf) < PipeCap
    /\ LET n == Min(PipeCap - Len(pipe_buf), Len(child_out))
       IN  /\ pipe_buf' = pipe_buf \o Take(child_out, n)
           /\ child_out' = SubSeq(child_out, n + 1, Len(child_out))
    /\ UNCHANGED <<main_vars, hist_vars, field_buffers, overrun, rc, cmd, buf,
                   pipe_fds, defers, child, read_so_far, ret, cmd_out, old>>
    /\ UNCHANGED <<status, sink_vars, client_vars, exec_failed>>

\* the command has written everything and exits: its write end closes
ChildExit ==
    /\ child = "running"
    /\ child_out = <<>>
    /\ child' = "exited"
    /\ UNCHANGED <<main_vars, hist_vars, field_buffers, overrun, rc, cmd, buf,
                   pipe_fds, defers, child_out, pipe_buf, read_so_far, ret,
                   cmd_out, old>>
    /\ UNCHANGED <<status, sink_vars, client_vars, exec_failed>>

(* ---------------------------------------------------------- init_status *)

\* for (auto& el : updates) run_update(&el);
InitStatusCall ==
    /\ pc = "init_status"
    /\ rc = "idle"
    /\ i < NUpdates
    /\ RunUpdate(i)
    /\ updated' = updated \cup {i}
    /\ UNCHANGED <<main_vars, mask, dgram_len, diag_recv, diag_oob, publishes,
                   received, fatal, faults>>
    /\ UNCHANGED <<status, sink_vars, client_vars>>

InitStatusNext ==
    /\ pc = "init_status"
    /\ rc = "returned"
    /\ i' = i + 1
    /\ ExecReset
    /\ UNCHANGED <<variant, pc, sock_fd, bitset, field_buffers, overrun, hist_vars>>
    /\ UNCHANGED <<status, sink_vars, client_vars>>

\* an init_status that does not call refresh_status
InitStatusRefreshMut ==
    /\ pc = "init_status"
    /\ rc = "idle"
    /\ i = NUpdates
    /\ updated' = {}
    /\ i' = 0
    /\ pc' = "recv"
    /\ UNCHANGED <<variant, sock_fd, bitset, field_buffers, exec_vars, overrun,
                   mask, dgram_len, diag_recv, diag_oob, received, fatal, faults,
                   publishes, status, sink_vars, client_vars>>
\* refresh_status() at the end of init_status, then the receive loop
InitStatusRefresh ==
    /\ pc = "init_status"
    /\ rc = "idle"
    /\ i = NUpdates
    /\ publishes' = publishes + 1
    /\ updated' = {}
    /\ i' = 0
    /\ pc' = "recv"
    /\ UNCHANGED <<variant, sock_fd, bitset, field_buffers, exec_vars, overrun,
                   mask, dgram_len, diag_recv, diag_oob, received, fatal, faults>>
    /\ status' = Render(field_buffers)
    /\ stdout_buf' = Publish(sink, stdout_buf, status')
    /\ UNCHANGED <<sink, client_vars>>

(* ----------------------------------------------------- the receive loop *)

\* what read(sock_fd, &bitset, sizeof(bitset)) returns for a datagram of
\* len bytes: a datagram socket hands over the first sizeof(bitset) bytes
\* and drops the rest
RecvLen(len) == Min(len, SIZEOF_BITSET)

\* read() on the control socket, and the three tests that follow it
Receive ==
    /\ pc = "recv"
    /\ \/ /\ pc' = "exited"                   \* nbytes < 0: perror, EXIT_FAILURE
          /\ fatal' = "recv_error"
          /\ diag_recv' = 1
          /\ dgram_len' = -1
          /\ UNCHANGED <<bitset, i, mask, received>>
       \/ \E d \in Datagrams :
          LET nbytes == RecvLen(d.len)
          IN  /\ dgram_len' = d.len
              /\ \/ /\ nbytes = 0             \* "Socket unexpectedly closed"
                    /\ pc' = "exited"
                    /\ fatal' = "recv_zero"
                    /\ diag_recv' = 1
                    /\ UNCHANGED <<bitset, i, mask, received>>
                 \/ /\ nbytes # 0             \* "failed to read all bytes"
                    /\ nbytes # SIZEOF_BITSET
                    /\ pc' = "recv"
                    /\ diag_recv' = 1
                    /\ UNCHANGED <<bitset, i, mask, received, fatal>>
                 \/ /\ nbytes = SIZEOF_BITSET
                    /\ received < MaxMsgs
                    /\ received' = received + 1
                    /\ bitset' = d.bits
                    /\ mask' = d.bits
                    /\ i' = 0
                    /\ diag_recv' = 0
                    /\ pc' = "dispatch"
                    /\ UNCHANGED fatal
    /\ UNCHANGED <<variant, sock_fd, field_buffers, exec_vars, overrun,
                   updated, diag_oob, publishes, faults>>
    /\ UNCHANGED <<status, sink_vars, client_vars>>

\* the loop body at index i: the test of bit i; a clear bit is skipped
DispatchTest ==
    /\ pc = "dispatch"
    /\ rc = "idle"
    /\ i < NUpdates
    /\ \/ /\ BitTest(variant, bitset, i)
          /\ RunUpdate(i)
          /\ updated' = updated \cup {i}
          /\ UNCHANGED <<bitset, i>>
       \/ /\ ~BitTest(variant, bitset, i)
          /\ bitset' = BitClear(variant, bitset, i)
          /\ i' = i + 1
          /\ UNCHANGED <<updated, exec_vars, field_buffers, overrun>>
    /\ UNCHANGED <<variant, pc, sock_fd, mask, dgram_len, diag_recv, diag_oob,
                   publishes, received, fatal, faults>>
    /\ UNCHANGED <<status, sink_vars, client_vars>>

\* run_update has returned: the bit is cleared, i++
DispatchNext ==
    /\ pc = "dispatch"
    /\ rc = "returned"
    /\ bitset' = BitClear(variant, bitset, i)
    /\ i' = i + 1
    /\ ExecReset
    /\ UNCHANGED <<variant, pc, sock_fd, field_buffers, overrun, hist_vars>>
    /\ UNCHANGED <<status, sink_vars, client_vars>>

\* a dispatch that publishes only when some update ran
DispatchDiagMut ==
    /\ pc = "dispatch"
    /\ rc = "idle"
    /\ i = NUpdates
    /\ diag_oob' = IF bitset # {} THEN diag_oob + 1 ELSE diag_oob
    /\ pc' = IF updated = {} THEN "recv" ELSE "refresh"
    /\ UNCHANGED <<variant, sock_fd, bitset, i, field_buffers, exec_vars,
                   overrun, mask, updated, dgram_len, diag_recv, publishes,
                   received, fatal, faults>>
    /\ UNCHANGED <<status, sink_vars, client_vars>>
\* after the loop: if (bitset) fprintf(stderr, "... out of bounds ...")
DispatchDiag ==
    /\ pc = "dispatch"
    /\ rc = "idle"
    /\ i = NUpdates
    /\ diag_oob' = IF bitset # {} THEN diag_oob + 1 ELSE diag_oob
    /\ pc' = "refresh"
    /\ UNCHANGED <<variant, sock_fd, bitset, i, field_buffers, exec_vars,
                   overrun, mask, updated, dgram_len, diag_recv, publishes,
                   received, fatal, faults>>
    /\ UNCHANGED <<status, sink_vars, client_vars>>

\* refresh_status(): render and publish; the dispatch is over
RefreshStatus ==
    /\ pc = "refresh"
    /\ publishes' = publishes + 1
    /\ pc' = "recv"
    /\ mask' = {} /\ updated' = {} /\ diag_oob' = 0 /\ dgram_len' = -1
    /\ UNCHANGED <<variant, sock_fd, bitset, i, field_buffers, exec_vars,
                   overrun, diag_recv, received, fatal, faults>>
    /\ status' = Render(field_buffers)
    /\ stdout_buf' = Publish(sink, stdout_buf, status')
    /\ UNCHANGED <<sink, client_vars>>

(* ------------------------------------- the loop as a function of bitset *)

RECURSIVE DispatchLoop(_, _, _)
\* for (u8 i = k; i < std::size(updates); i++) on bitset b: the indices whose
\* update it runs, in the order it runs them, and the bitset it leaves
DispatchLoop(v, b, k) ==
    IF k >= NUpdates THEN [run |-> <<>>, bitset |-> b]
    ELSE LET rest == DispatchLoop(v, BitClear(v, b, k), k + 1)
         IN  [run |-> (IF BitTest(v, b, k) THEN <<k>> ELSE <<>>) \o rest.run,
              bitset |-> rest.bitset]

(* ----------------------------------------------------------- the client *)

\* the decimal digits, in order of value
Digits == <<"0", "1", "2", "3", "4", "5", "6", "7", "8", "9">>

IsDigit(c) == \E k \in 1..Len(Digits) : Digits[k] = c

DigitVal(c) == (CHOOSE k \in 1..Len(Digits) : Digits[k] = c) - 1

\* the largest value of a u8
U8_MAX == 255

RECURSIVE DigitRun(_)
\* the length of the longest prefix of s made of digits
DigitRun(s) ==
    IF s # <<>> /\ IsDigit(Head(s)) THEN 1 + DigitRun(Tail(s)) ELSE 0

RECURSIVE Decimal(_)
\* the value of a sequence of digits
Decimal(s) ==
    IF s = <<>> THEN 0
    ELSE Len(Digits) * Decimal(SubSeq(s, 1, Len(s) - 1)) + DigitVal(s[Len(s)])

\* std::from_chars(first, last, pos) with u8 pos: no sign and no white space
\* is accepted; the digits at the front are taken and what follows them is
\* left unread (ptr); without a digit the result is invalid_argument, and a
\* value a u8 cannot hold gives result_out_of_range.  pos is stored only on
\* success.
FromChars(s) ==
    LET n == DigitRun(s)
        v == Decimal(SubSeq(s, 1, n))
    IN  IF n = 0 THEN [ec |-> "invalid_argument", pos |-> -1, ptr |-> 0]
        ELSE IF v > U8_MAX THEN [ec |-> "result_out_of_range", pos |-> -1, ptr |-> n]
        ELSE [ec |-> "", pos |-> v, ptr |-> n]

\* a client that keeps only the last position given
SetBitMut(b, pos) == {pos}
\* bs |= u64(1) << pos
SetBit(b, pos) == b \cup {pos}

\* if (argc < 2): usage, EXIT_FAILURE; else u64 bs = 0 and the loop begins
ClientStart ==
    /\ cpc = "start"
    /\ IF Len(argv) + 1 < 2
       THEN cpc' = "exited" /\ exit_code' = "EXIT_FAILURE" /\ UNCHANGED <<ci, bs>>
       ELSE cpc' = "parse" /\ ci' = 1 /\ bs' = {} /\ UNCHANGED exit_code
    /\ UNCHANGED <<argv, server_fd, sent>>
    /\ UNCHANGED <<main_vars, field_buffers, exec_vars, overrun, hist_vars, status,
                   sink_vars>>

\* one turn of for (int i = 1; i < argc; i++), or its end
ClientParse ==
    /\ cpc = "parse"
    /\ IF ci < Len(argv) + 1
       THEN LET r == FromChars(argv[ci])
            IN  IF r.ec # "" \/ r.pos >= U64_BITS
                THEN /\ cpc' = "exited"
                     /\ exit_code' = "EXIT_FAILURE"
                     /\ UNCHANGED <<ci, bs>>
                ELSE /\ bs' = SetBit(bs, r.pos)
                     /\ ci' = ci + 1
                     /\ UNCHANGED <<cpc, exit_code>>
       ELSE cpc' = "socket" /\ UNCHANGED <<ci, bs, exit_code>>
    /\ UNCHANGED <<argv, server_fd, sent>>
    /\ UNCHANGED <<main_vars, field_buffers, exec_vars, overrun, hist_vars, status,
                   sink_vars>>

\* socket(AF_UNIX, SOCK_DGRAM, 0)
ClientSocket ==
    /\ cpc = "socket"
    /\ \E fd \in SocketResults :
         /\ server_fd' = fd
         /\ IF fd < 0
            THEN cpc' = "exited" /\ exit_code' = "EXIT_FAILURE"
            ELSE cpc' = "sendto" /\ UNCHANGED exit_code
    /\ UNCHANGED <<argv, ci, bs, sent>>
    /\ UNCHANGED <<main_vars, field_buffers, exec_vars, overrun, hist_vars, status,
                   sink_vars>>

\* sendto(server_fd, &bs, sizeof(bs), ...): the datagram goes out whole, or
\* the call fails
ClientSendto ==
    /\ cpc = "sendto"
    /\ \/ /\ exit_code' = "EXIT_FAILURE"
          /\ UNCHANGED sent
       \/ /\ sent' = Append(sent, [len |-> SIZEOF_BITSET, bits |-> bs])
          /\ exit_code' = "EXIT_SUCCESS"
    /\ cpc' = "exited"
    /\ UNCHANGED <<argv, ci, bs, server_fd>>
    /\ UNCHANGED <<main_vars, field_buffers, exec_vars, overrun, hist_vars, status,
                   sink_vars>>

\* most arguments on the client's command line
MaxArgs == 2

\* command-line arguments: indices, with a leading zero, out of range,
\* beyond a u8, signed, with text after the digits, without a digit, empty
ArgStrings ==
    { <<"0">>, <<"1">>, <<"2">>, <<"0", "2">>, <<"3", "2">>, <<"6", "3">>,
      <<"6", "4">>, <<"2", "5", "6">>, <<"-", "1">>, <<"2", "x">>, <<"x">>, <<>> }

ArgLists == UNION { [1..n -> ArgStrings] : n \in 0..MaxArgs }

ClientInit ==
    /\ DaemonInit
    /\ sink = "title"
    /\ argv \in ArgLists
    /\ cpc = "start" /\ ci = 0 /\ bs = {}
    /\ server_fd = -1 /\ exit_code = "none" /\ sent = <<>>

ClientNext ==
    \/ ClientStart
    \/ ClientParse
    \/ ClientSocket
    \/ ClientSendto

ClientSpec == ClientInit /\ [][ClientNext]_vars

(* -------------------------------------------------------- specification *)

Next ==
    \/ GetNamedSocket
    \/ InitX
    \/ InitStatusCall
    \/ InitStatusNext
    \/ InitStatusRefresh
    \/ Receive
    \/ DispatchTest
    \/ DispatchNext
    \/ DispatchDiag
    \/ RefreshStatus
    \/ RcPipe
    \/ RcFork
    \/ RcRead
    \/ RcFull
    \/ RcDefer
    \/ ChildWrite
    \/ ChildExit

Spec == Init /\ [][Next]_vars

\* the daemon's own steps, and the steps of the child it forked
DaemonStep ==
    \/ GetNamedSocket \/ InitX \/ InitStatusCall \/ InitStatusNext
    \/ InitStatusRefresh \/ DispatchTest \/ DispatchNext \/ DispatchDiag
    \/ RefreshStatus \/ RcPipe \/ RcFork \/ RcRead \/ RcFull \/ RcDefer
ChildStep == ChildWrite \/ ChildExit

\* Both processes are scheduled: a process that can take a step and is not
\* blocked in a system call takes it.  (Receive is left out: no client need
\* ever send.)
LiveSpec == Spec /\ WF_vars(DaemonStep) /\ WF_vars(ChildStep)

\* a field buffer that holds the string s
FieldOf(s) == [k \in BufIdx |-> IF k < Len(s) THEN s[k + 1] ELSE NUL]

\* Field Stores for refresh_status: every length from 0 to the capacity, in
\* each field
RenderInputs ==
    { [f \in Fields |-> FieldOf(Rep(IF f = 1 THEN "b" ELSE "a", n[f]))] :
        n \in [Fields -> 0..(FIELD_BUF_MAX_SIZE - 1)] }

\* the daemon about to publish after a dispatch that ran every update
RenderInit ==
    /\ variant \in {"int", "u64"}
    /\ pc = "refresh"
    /\ sock_fd = 3
    /\ field_buffers \in RenderInputs
    /\ bitset = {}
    /\ i = NUpdates
    /\ ExecIdle
    /\ overrun = FALSE
    /\ mask = Fields /\ updated = Fields /\ dgram_len = SIZEOF_BITSET
    /\ diag_recv = 0 /\ diag_oob = 0
    /\ publishes = 1 /\ received = 1
    /\ fatal = "none"
    /\ faults = 0
    /\ status = Render(ZeroBuffers)
    /\ sink = "title" /\ stdout_buf = <<>>
    /\ ClientAbsent

RenderSpec == RenderInit /\ [][RefreshStatus]_vars

\* bitmasks over the low bits, the bits about the width of int, and the top
MaskBits == {0, 1, 2, N_FIELDS, INT_BITS - 2, INT_BITS - 1, INT_BITS, U64_BITS - 1}

WideMasks == SUBSET MaskBits

\* the daemon of either build with a bitmask just received, its fields as a
\* startup left them
LoopInit ==
    /\ variant \in {"int", "u64"}
    /\ pc = "dispatch"
    /\ sock_fd = 3
    /\ field_buffers =
          [f \in Fields |-> FieldOf(IF f = 2 THEN Rep("a", FIELD_BUF_MAX_SIZE - 2)
                                    ELSE IF f = 1 THEN <<"b">> ELSE <<"a">>)]
    /\ bitset \in WideMasks
    /\ mask = bitset
    /\ i = 0
    /\ ExecIdle
    /\ overrun = FALSE
    /\ updated = {} /\ dgram_len = SIZEOF_BITSET
    /\ diag_recv = 0 /\ diag_oob = 0
    /\ publishes = 1 /\ received = 1
    /\ fatal = "none"
    /\ faults = 0
    /\ status = Render(field_buffers)
    /\ sink = "title" /\ stdout_buf = <<>>
    /\ ClientAbsent

\* The loop and the test that follows it, as functions of the bitmask: which
\* updates are called, what is left of bitset, whether the diagnostic is
\* printed.  The updates themselves are not run.
ApplyDispatchLoop ==
    /\ pc = "dispatch"
    /\ rc = "idle"
    /\ i = 0
    /\ LET r == DispatchLoop(variant, bitset, 0)
       IN  /\ bitset' = r.bitset
           /\ updated' = { r.run[k] : k \in 1..Len(r.run) }
           /\ diag_oob' = IF r.bitset # {} THEN diag_oob + 1 ELSE diag_oob
    /\ i' = NUpdates
    /\ pc' = "refresh"
    /\ UNCHANGED <<variant, sock_fd, field_buffers, exec_vars, overrun, mask,
                   dgram_len, diag_recv, publishes, received, fatal, faults,
                   status, sink_vars, client_vars>>

LoopSpec == LoopInit /\ [][ApplyDispatchLoop]_vars

\* the daemon built with NO_X11, its standard output a pipe or a file
StreamInit == DaemonInit /\ sink = "stream" /\ ClientAbsent

StreamSpec == StreamInit /\ [][Next]_vars

(* --------------------------------------------------------------- claims *)

InDispatch == pc \in {"dispatch", "refresh"}

\* the registry indices the loop has dealt with so far
Scanned ==
    IF pc = "refresh" THEN Fields
    ELSE IF rc = "idle" THEN 0..(i - 1)
    ELSE 0..i

\* the updates run so far in this dispatch are those of the set bits scanned
C1_SelectedSet == InDispatch => updated = (mask \cap Fields) \cap Scanned

\* a step changes the buffer of field f only inside the running update of f
C1_Frame ==
    \A f \in Fields :
        field_buffers'[f] # field_buffers[f] =>
            /\ rc \in {"fork", "read"}
            /\ buf = f
            /\ f \in updated
            /\ InDispatch => f \in mask

\* C1: in a dispatch of bitmask b the update of field k runs if and only if
\* k < N_FIELDS and bit k of b is set, and a step changes the buffer of
\* field f only as part of the running update of f, which was selected:
\* every other buffer keeps its bytes.
C1_DispatchUpdatesExactlySetBits == [](C1_SelectedSet) /\ [][C1_Frame]_vars

\* bitmask 0b101 has been dispatched: fields 0 and 2 ran, field 1 did not
C1_Witness ==
    /\ pc = "refresh"
    /\ mask = {0, 2}
    /\ updated = {0, 2}
    /\ CStr(field_buffers[0]) = <<"a">>
    /\ CStr(field_buffers[1]) # <<>>

\* C2: a datagram whose length is not 8 bytes runs no update source and
\* draws exactly one diagnostic from the receive loop.
C2_OddSizedDatagramIgnored ==
    (dgram_len # -1 /\ dgram_len # SIZEOF_BITSET) =>
        /\ pc \in {"recv", "exited"}
        /\ rc = "idle"
        /\ updated = {}
        /\ diag_recv = 1

\* C3: every field buffer always holds a terminator within its 32 bytes
\* (string length at most 31), and no store is made at an index >= 32.
C3_BuffersTerminated ==
    /\ \A f \in Fields : StrLen(field_buffers[f]) <= FIELD_BUF_MAX_SIZE - 1
    /\ ~overrun

\* a read error after bytes were read into a buffer that held a longer string
C3_Witness ==
    /\ rc = "returned"
    /\ ret = "false"
    /\ read_so_far > 0
    /\ StrLen(old) > read_so_far

\* C4: when the command writes more than 31 bytes, the stored value is the
\* first 31 bytes of its output (string length 31), with no overrun.
C4_TruncatedToFirst31 ==
    (rc = "returned" /\ ret = "true" /\ Len(cmd_out) > FIELD_BUF_MAX_SIZE - 1) =>
        /\ CStr(field_buffers[buf]) = Take(cmd_out, FIELD_BUF_MAX_SIZE - 1)
        /\ ~overrun

\* an output less one trailing newline, if it ends with one
StripOne(s) ==
    IF s # <<>> /\ s[Len(s)] = NL THEN SubSeq(s, 1, Len(s) - 1) ELSE s

\* the first n bytes of a field buffer
Stored(b, n) == [k \in 1..Min(n, FIELD_BUF_MAX_SIZE) |-> b[k - 1]]

\* what the buffer holds is the output less one trailing newline, terminated
StoresStripped ==
    LET want == StripOne(cmd_out)
    IN  /\ Stored(field_buffers[buf], Len(want)) = want
        /\ Len(want) < FIELD_BUF_MAX_SIZE
        /\ field_buffers[buf][Len(want)] = NUL

\* C5 as claimed: for every command output, the stored bytes are the
\* output less exactly one trailing newline, no other byte removed.
C5_StripsOneNewlineAlways ==
    (rc = "returned" /\ ret = "true") => StoresStripped

\* C5 as amended: the same, for every output of at most 31 bytes.
C5_StripsOneNewlineWhenItFits ==
    (rc = "returned" /\ ret = "true" /\ Len(cmd_out) <= FIELD_BUF_MAX_SIZE - 1) =>
        StoresStripped

\* an output ending in two newlines is stored with exactly one
C5_Witness ==
    /\ rc = "returned"
    /\ ret = "true"
    /\ cmd_out = <<"b", NL, NL>>
    /\ CStr(field_buffers[buf]) = <<"b", NL>>

\* C6: a bit at a position >= N_FIELDS is never used as a field index, and
\* the dispatch emits one out-of-range diagnostic if the bitmask has such a
\* bit (however many) and none otherwise.
C6_StrayBitsReportedOnce ==
    /\ buf \in Fields \cup {-1}
    /\ updated \subseteq Fields
    /\ diag_oob <= 1
    /\ pc = "dispatch" => diag_oob = 0
    /\ pc = "refresh" => (diag_oob = 1 <=> (mask \ Fields) # {})

C6_Witness ==
    /\ pc = "refresh"
    /\ Cardinality(mask \ Fields) = 3
    /\ updated = {1, 2}
    /\ diag_oob = 1

\* the counts of publishes and of 8-byte messages, by main's position
C7_Counts ==
    /\ pc \in {"start", "init_x", "init_status"} => publishes = 0 /\ received = 0
    /\ InDispatch => publishes = received
    /\ pc = "recv" => publishes = received + 1

\* a publish is made with the loop over, and the receive follows
C7_PublishStep ==
    publishes' # publishes =>
        /\ publishes' = publishes + 1
        /\ rc = "idle"
        /\ i = NUpdates
        /\ pc' = "recv"

C8_NoLeakOnReturn ==
    rc = "returned" => (pipe_fds = {} /\ child \in {"none", "reaped"})

\* the read-failure path
C8_Witness ==
    /\ rc = "returned"
    /\ ret = "false"
    /\ child = "reaped"
    /\ pipe_fds = {}

\* C9: a failed update leaves the field's buffer as it was before the update.
C9_FailedUpdateKeepsValue ==
    (rc = "returned" /\ ret = "false") => field_buffers[buf] = old

\* C10: the daemon exits if and only if a fatal condition occurred: socket
\* creation or bind failed, the display could not be opened, the receive
\* failed or returned zero bytes.
C10_ExitsOnlyOnFatal == (pc = "exited") <=> (fatal # "none")

\* the status line written out: "[" f0 " |" f1 " |" f2 "]"
Bracketed(f0, f1, f2) ==
    <<"[">> \o f0 \o <<" ", "|">> \o f1 \o <<" ", "|">> \o f2 \o <<"]">>

\* the status line of a Field Store
StatusOf(fb) == Bracketed(CStr(fb[0]), CStr(fb[1]), CStr(fb[2]))

\* before the first receive one publish has been made, and between
\* dispatches the published string is the status line of the Field Store
C11_Published ==
    /\ pc \in {"start", "init_x", "init_status"} => publishes = 0 /\ status = <<>>
    /\ (pc = "recv" /\ received = 0) => publishes = 1
    /\ pc = "recv" => status = StatusOf(field_buffers)

\* the steps of startup and of a dispatch, in their order
C11_Steps ==
    /\ (pc = "init_status" /\ rc = "idle" /\ rc' = "pipe") =>
           /\ updated = 0..(i - 1)
           /\ buf' = i
           /\ sock_fd >= 0
    /\ (pc = "init_status" /\ pc' # "init_status") =>
           /\ updated = Fields
           /\ pc' = "recv"
           /\ publishes' = 1
    /\ publishes' # publishes => status' = StatusOf(field_buffers)
    /\ InDispatch =>
           \A f \in Fields \ mask : field_buffers'[f] = field_buffers[f]

\* C11: after the socket and the display are set up, startup runs every
\* registry update once, in index order, and then publishes the status line
\* once before the first receive; every publish is "[" f0 " |" f1 " |" f2 "]"
\* of the fields as they then are, and a dispatch leaves the field of a clear
\* bit as it was (bitmask 0b101: field 1 keeps its value in the new line).
C11_StartupThenPublish == [](C11_Published) /\ [][C11_Steps]_vars

\* startup published "[a |b |a...a]"; bitmask 0b101 has since run updates 0
\* and 2, and the next publish shows the new fields 0 and 2 around the old 1
C11_Witness ==
    /\ pc = "refresh"
    /\ mask = {0, 2}
    /\ publishes = 1
    /\ status = Bracketed(<<"a">>, <<"b">>, Rep("a", FIELD_BUF_MAX_SIZE - 2))
    /\ StatusOf(field_buffers) =
           Bracketed(<<"b", NL>>, <<"b">>, Rep("b", FIELD_BUF_MAX_SIZE - 2))

\* an argument that is a field index: digits only, a value in 0..63
ValidIndex(a) == a # <<>> /\ DigitRun(a) = Len(a) /\ Decimal(a) < U64_BITS

\* the indices the command line lists
Listed == { Decimal(argv[k]) : k \in 1..Len(argv) }

Range(q) == { q[k] : k \in 1..Len(q) }

Increasing(q) == \A k \in 1..(Len(q) - 1) : q[k] < q[k + 1]

\* C12: for a non-empty list of indices in 0..63, in any order and with
\* repeats, the one datagram the client sends is 8 bytes with bit i set
\* exactly when i is listed, and the dispatch loop of either daemon run on
\* that bitmask runs exactly the listed indices below N_FIELDS, in
\* increasing order.
C12_EncodingRoundTrip ==
    (argv # <<>> /\ (\A k \in 1..Len(argv) : ValidIndex(argv[k])) /\ sent # <<>>) =>
        /\ Len(sent) = 1
        /\ sent[1].len = SIZEOF_BITSET
        /\ sent[1].bits = Listed
        /\ \A v \in {"int", "u64"} :
              LET r == DispatchLoop(v, sent[1].bits, 0)
              IN  Range(r.run) = Listed \cap Fields /\ Increasing(r.run)

\* `status 2 0` has sent 0b101
C12_Witness ==
    /\ argv = << <<"2">>, <<"0">> >>
    /\ exit_code = "EXIT_SUCCESS"
    /\ sent = << [len |-> SIZEOF_BITSET, bits |-> {0, 2}] >>
    /\ DispatchLoop(variant, sent[1].bits, 0).run = <<0, 2>>

\* C13: with no argument, or with any argument that is not a field index in
\* 0..63, the client exits non-zero and sends nothing; it exits non-zero when
\* socket() or sendto() fails; it exits zero only after sending exactly one
\* 8-byte datagram.
C13_InvalidArgumentsRejected ==
    cpc = "exited" =>
        /\ (argv = <<>> \/ \E k \in 1..Len(argv) : ~ValidIndex(argv[k])) =>
               (exit_code = "EXIT_FAILURE" /\ sent = <<>>)
        /\ exit_code = "EXIT_SUCCESS" =>
               (Len(sent) = 1 /\ sent[1].len = SIZEOF_BITSET)
        /\ exit_code = "EXIT_FAILURE" => sent = <<>>

\* an update is in progress only inside the loop of init_status or of a
\* dispatch, a live child belongs to the update in progress, and the update
\* has returned only with its child reaped
C14_OneInProgress ==
    /\ rc # "idle" => pc \in {"init_status", "dispatch"}
    /\ child \in {"running", "exited"} => rc \in {"read", "defer"}
    /\ rc = "returned" => child \in {"none", "reaped"}
    /\ pc = "refresh" => (rc = "idle" /\ child = "none" /\ i = NUpdates)

\* an update starts with none in progress and after every lower index run in
\* this dispatch; the render is made with the loop over and none in progress
C14_InOrder ==
    /\ (pc = "dispatch" /\ rc' = "pipe") =>
           /\ rc = "idle"
           /\ child = "none"
           /\ buf' = i
           /\ \A k \in updated : k < i
    /\ status' # status =>
           /\ rc = "idle"
           /\ child = "none"
           /\ pc \in {"init_status", "refresh"}
           /\ i = NUpdates

\* C14: within a dispatch the selected updates run one at a time in strictly
\* increasing registry order, each to completion (child spawned, output
\* captured, child reaped) before the next starts, and the render reads the
\* buffers only after the last update has completed: never two updates, or
\* an update and a render, in progress at once.
C14_SequentialUpdates == [](C14_OneInProgress) /\ [][C14_InOrder]_vars

\* bitmask 0b101: update 0 has completed, update 2 is reading its child's output
C14_Witness ==
    /\ pc = "dispatch"
    /\ mask = {0, 2}
    /\ updated = {0, 2}
    /\ i = 2
    /\ rc = "read"
    /\ child = "running"
    /\ read_so_far > 0

\* C15: when dup2 or execv fails in the child, read_cmd_output still returns
\* true (short of a failure of the parent's own read) and the field becomes
\* the empty string, as it does for a command that ran and printed nothing;
\* in neither case is the previous value kept.
C15_ExecFailureGivesEmptyField ==
    /\ (exec_failed /\ rc \in {"defer", "returned"}) =>
           (ret = "true" \/ faults > 1)
    /\ (rc = "returned" /\ ret = "true" /\ (exec_failed \/ cmd_out = <<>>)) =>
           CStr(field_buffers[buf]) = <<>>

\* the lengths of the strings in the Field Store, summed
SumLen == StrLen(field_buffers[0]) + StrLen(field_buffers[1]) + StrLen(field_buffers[2])

\* C16 as claimed: for field values of length 0..31 the published string is
\* "[" f0 " |" f1 " |" f2 "]" in registry order with no character dropped:
\* its length is the sum of the field lengths + 7 and, with the terminator,
\* at most STATUS_BUF_MAX_SIZE, so snprintf does not truncate.
C16_RenderLengthSumPlus7 ==
    pc = "recv" =>
        /\ status = StatusOf(field_buffers)
        /\ Len(status) = SumLen + 7
        /\ Len(status) + 1 <= STATUS_BUF_MAX_SIZE

\* C16 as amended: the same, the length being the sum of the field lengths
\* + 6 (the characters "[", " |", " |", "]"), + 7 with the terminator.
C16_RenderNeverTruncated ==
    pc = "recv" =>
        /\ status = StatusOf(field_buffers)
        /\ Len(status) = SumLen + 6
        /\ Len(status) + 1 <= STATUS_BUF_MAX_SIZE

\* three fields of 31 characters have been published: 99 characters
C16_Witness ==
    /\ pc = "recv"
    /\ \A f \in Fields : StrLen(field_buffers[f]) = FIELD_BUF_MAX_SIZE - 1
    /\ Len(status) = N_FIELDS * (FIELD_BUF_MAX_SIZE - 1) + 6
    /\ status[Len(status)] = "]"

\* C17: read_cmd_output returns for every command that writes a finite
\* output and exits, whatever the output's length, so every update that is
\* begun returns.
C17_EveryUpdateReturns == (rc = "pipe") ~> (rc = "returned")

\* C18: with N_FIELDS = 3 the loop written with (1 << i) and the loop written
\* with u64(1) << i do the same on every bitmask: they call the same updates
\* in the same order, leave the same bitset (the received bits at positions
\* >= N_FIELDS, the high 32 among them neither lost nor set), and print the
\* out-of-range diagnostic in the same cases.
C18_VariantsAgree ==
    LET a == DispatchLoop("int", mask, 0)
        b == DispatchLoop("u64", mask, 0)
    IN  /\ a.run = b.run
        /\ a.bitset = b.bitset
        /\ b.bitset = mask \ Fields
        /\ pc = "refresh" =>
              /\ bitset = b.bitset
              /\ updated = Range(b.run)
              /\ diag_oob = 1 <=> b.bitset # {}

\* the (1 << i) daemon has run its loop on a bitmask with bits 31, 32 and 63
C18_Witness ==
    /\ variant = "int"
    /\ pc = "refresh"
    /\ mask = {0, 2, INT_BITS - 1, INT_BITS, U64_BITS - 1}
    /\ bitset = {INT_BITS - 1, INT_BITS, U64_BITS - 1}
    /\ updated = {0, 2}
    /\ diag_oob = 1

====
